---- MODULE Spec2Model ----
(***************************************************************************)
(* Model of src/src/hotwheels_main.cpp: the launch-and-catch sequencer.    *)
(*                                                                         *)
(* The main thread is a program counter pc walking the statements of       *)
(* main() and SetupRMP(); SignalHandler is an action that may run between  *)
(* any two statements of the main thread.  Calls into the motion library   *)
(* (RapidCode) are external: each one either returns or throws, chosen     *)
(* nondeterministically, and a digital input reads true or false.          *)
(*                                                                         *)
(* Units of the fixed-point arithmetic: time in milliseconds, length in    *)
(* centimetres, speed in cm/s, angles in hundredths of a degree, sines     *)
(* and cosines scaled by TRIG_SCALE.                                       *)
(***************************************************************************)
EXTENDS Integers, Sequences, FiniteSets

\* ------------------------------------------------------------------ bounds

\* The clock is tracked exactly below MaxClock ms and saturates there; a
\* sensor timestamp is only taken while the clock is still exact.
MaxClock == 6
\* Number of launch cycles the operator starts (angle entries).
MaxCycles == 2
\* Number of SIGINT deliveries.
MaxSignals == 2
\* Largest timestamp (ms) given to ComputeSpeed on its own.
MaxTime == 7

\* --------------------------------------------------------------- constants

SENSOR_DISTANCE == 10
ANGLE_OFFSET == 0
GRAVITY == 981
MIN_CATCHER_POSITION == 0
MAX_CATCHER_POSITION == 84
RAMP_HEIGHT == 23
\* The reserved angle 1.23 degrees.
SENTINEL_ANGLE == 123
\* sleep_for(milliseconds(1)) in the two wait loops.
POLL_SLEEP_MS == 1
\* sleep_for(seconds(3)) at the end of a cycle.
COOLDOWN_MS == 3000
\* Door positions commanded by main: closed, and 100 - rampAngle when open.
DOOR_CLOSED == 0
DOOR_OPEN_BASE == 10000
TRIG_SCALE == 10000

\* enum AxisID
RAMP == 0
DOOR == 1
CATCHER == 2
AxisIDs == {RAMP, DOOR, CATCHER}

\* nullptr, and the handles the library hands out.
NULL == -1
CONTROLLER == 1
SENSOR1_INPUT == 1
SENSOR2_INPUT == 0

\* Process exit statuses: still running, return 0, return 1 / exit(1), and
\* abnormal termination (killed by a fault).
RUNNING == -1
EXIT_SUCCESS == 0
EXIT_FAILURE == 1
EXIT_CRASH == 139

\* ---------------------------------------------------------------- physics

\* Angles the operator enters (hundredths of a degree): 0, 30, 89.9, 120
\* degrees and the sentinel 1.23.
Angles == {0, 3000, 8990, 12000, SENTINEL_ANGLE}

\* cos(angleDeg * M_PI / 180.0), scaled by TRIG_SCALE.
Cos(a) ==
  CASE a = 0 -> 10000
    [] a = 3000 -> 8660
    [] a = 8990 -> 17
    [] a = 12000 -> -5000
    [] a = SENTINEL_ANGLE -> 9998

\* sin(angleDeg * M_PI / 180.0), scaled by TRIG_SCALE.
Sin(a) ==
  CASE a = 0 -> 0
    [] a = 3000 -> 5000
    [] a = 8990 -> 10000
    [] a = 12000 -> 8660
    [] a = SENTINEL_ANGLE -> 215

RECURSIVE SqrtSearch(_, _, _)
SqrtSearch(n, lo, hi) ==
  IF lo >= hi THEN lo
  ELSE LET mid == (lo + hi + 1) \div 2
       IN IF mid * mid <= n THEN SqrtSearch(n, mid, hi)
          ELSE SqrtSearch(n, lo, mid - 1)

\* sqrt, rounded down.
Sqrt(n) == SqrtSearch(n, 0, 46340)

\* Mutant of ComputeSpeed: the two timestamps are swapped.
ComputeSpeedSwapped(a, b) ==
  IF a > b THEN (SENSOR_DISTANCE * 1000) \div (a - b) ELSE 0

\* double ComputeSpeed(double t1, double t2): cm/s from two times in ms.
ComputeSpeed(a, b) ==
  IF b > a THEN (SENSOR_DISTANCE * 1000) \div (b - a) ELSE 0

\* double ComputeLandingPosition(double speed, double angleDeg): cm.
ComputeLandingPosition(speed, angleDeg) ==
  LET vx == (speed * Cos(angleDeg)) \div TRIG_SCALE
      vy == (speed * Sin(angleDeg)) \div TRIG_SCALE
      timeUp == (vy * 1000) \div GRAVITY
      maxHeight == (vy * timeUp) \div 1000
                   + ((((GRAVITY * timeUp) \div 1000) * timeUp) \div 2000)
      timeDown == Sqrt(((2 * (maxHeight + RAMP_HEIGHT) * 1000) \div GRAVITY) * 1000)
      timeOfFlight == timeUp + timeDown
  IN (vx * timeOfFlight) \div 1000

\* Mutant of Clamp: the upper limit is not applied.
ClampLowerOnly(v, lo, hi) == IF v < lo THEN lo ELSE v

\* std::clamp(v, lo, hi)
Clamp(v, lo, hi) == IF v < lo THEN lo ELSE IF hi < v THEN hi ELSE v

\* landing = clamp(ComputeLandingPosition(ComputeSpeed(t1, t2), rampAngle), ...)
Landing(a, b, angle) ==
  Clamp(ComputeLandingPosition(ComputeSpeed(a, b), angle),
        MIN_CATCHER_POSITION, MAX_CATCHER_POSITION)

\* ------------------------------------------------------------------ state

VARIABLES
  pc,            \* statement the main thread executes next
  controller, motorRamp, motorDoor, motorCatcher, sensor1Input, sensor2Input,
  gShutdown,     \* volatile sig_atomic_t gShutdown
  ampEnabled,    \* amplifier enable state of each axis, as last commanded
  rampAngle, t1, t2, speed, landing,   \* locals of main's loop body
  now,           \* steady_clock, ms
  exitCode,      \* RUNNING until the process ends
  deleted,       \* controller->Delete() has completed
  disableIssued, \* AmpEnableSet(false) was called on the axis since its last enable
  events,        \* commands and timestamps of the current cycle, in order
  lastMoveOk,    \* whether the most recent axis->MoveSCurve returned (did not throw)
  lastRead,      \* outcome of the most recent sensorInput->Get()
  readFailed,    \* a Get() of the current sensor wait has thrown
  sentinelSeen,  \* the operator has entered the sentinel angle
  cycles,        \* angle entries so far
  sigCount,      \* SIGINT deliveries so far
  sigPc          \* statement the main thread was at when the last SIGINT arrived

vars == <<pc, controller, motorRamp, motorDoor, motorCatcher, sensor1Input,
          sensor2Input, gShutdown, ampEnabled, rampAngle, t1, t2, speed, landing, now,
          exitCode, deleted, disableIssued, events, lastMoveOk, lastRead, readFailed,
          sentinelSeen, cycles, sigCount, sigPc>>

handles == <<controller, motorRamp, motorDoor, motorCatcher, sensor1Input, sensor2Input>>
locals == <<rampAngle, t1, t2, speed, landing>>
amps == <<ampEnabled, disableIssued>>
signals == <<sigCount, sigPc>>
ghosts == <<events, lastMoveOk, lastRead, readFailed, sentinelSeen, cycles>>

\* Globals as declared (lines 32-39), main not yet started.
Init ==
  /\ pc = "start"
  /\ controller = NULL /\ motorRamp = NULL /\ motorDoor = NULL /\ motorCatcher = NULL
  /\ sensor1Input = NULL /\ sensor2Input = NULL
  /\ gShutdown = 0
  /\ ampEnabled = [a \in AxisIDs |-> FALSE]
  /\ rampAngle = 0 /\ t1 = 0 /\ t2 = 0 /\ speed = 0 /\ landing = 0
  /\ now = 1
  /\ exitCode = RUNNING
  /\ deleted = FALSE
  /\ disableIssued = [a \in AxisIDs |-> FALSE]
  /\ events = <<>>
  /\ lastMoveOk = TRUE
  /\ lastRead = "none"
  /\ readFailed = FALSE
  /\ sentinelSeen = FALSE
  /\ cycles = 0
  /\ sigCount = 0
  /\ sigPc = "none"

\* The global pointer holding the handle of an axis.
Motor(a) == CASE a = RAMP -> motorRamp [] a = DOOR -> motorDoor [] a = CATCHER -> motorCatcher

\* ----------------------------------------------------------- signal handler

\* Mutant of HandlerTargets: only the ramp is disabled.
HandlerTargetsRampOnly == {a \in {RAMP} : Motor(a) # NULL}

\* The axes SignalHandler sends AmpEnableSet(false) to: those whose pointer is set.
HandlerTargets == {a \in AxisIDs : Motor(a) # NULL}

\* void SignalHandler(int): runs between two statements of the main thread.
\* The driver calls in the handler are modelled as returning.
SignalHandler ==
  /\ pc \notin {"start", "done"}
  /\ sigCount < MaxSignals
  /\ sigCount' = sigCount + 1
  /\ sigPc' = pc
  /\ gShutdown' = 1
  /\ ampEnabled' = [a \in AxisIDs |-> IF a \in HandlerTargets THEN FALSE ELSE ampEnabled[a]]
  /\ disableIssued' = [a \in AxisIDs |-> IF a \in HandlerTargets THEN TRUE ELSE disableIssued[a]]
  /\ UNCHANGED <<pc, handles, locals, now, exitCode, deleted, ghosts>>

\* ------------------------------------------------------------------- setup

\* std::signal(SIGINT, SignalHandler), then main enters its try block.
InstallHandler ==
  /\ pc = "start"
  /\ pc' = "create"
  /\ UNCHANGED <<handles, gShutdown, amps, locals, now, exitCode, deleted, ghosts, signals>>

\* controller = MotionController::Create(&p); CheckErrors(controller);
\* Create throws (controller stays null), or returns an object on which
\* CheckErrors throws, or both succeed.
CreateController ==
  /\ pc = "create"
  /\ \/ pc' = "catch" /\ UNCHANGED controller
     \/ pc' = "catch" /\ controller' = CONTROLLER
     \/ pc' = "network" /\ controller' = CONTROLLER
  /\ UNCHANGED <<motorRamp, motorDoor, motorCatcher, sensor1Input, sensor2Input,
                 gShutdown, amps, locals, now, exitCode, deleted, ghosts, signals>>

\* SampleAppsHelper::StartTheNetwork(controller): returns or throws.
StartTheNetwork ==
  /\ pc = "network"
  /\ pc' \in {"getRamp", "catch"}
  /\ UNCHANGED <<handles, gShutdown, amps, locals, now, exitCode, deleted, ghosts, signals>>

\* motorRamp = controller->AxisGet(RAMP); and likewise door and catcher.
AxisGet ==
  /\ \/ pc = "getRamp" /\ pc' = "getDoor" /\ motorRamp' = RAMP
        /\ UNCHANGED <<motorDoor, motorCatcher>>
     \/ pc = "getDoor" /\ pc' = "getCatcher" /\ motorDoor' = DOOR
        /\ UNCHANGED <<motorRamp, motorCatcher>>
     \/ pc = "getCatcher" /\ pc' = "initCatcher" /\ motorCatcher' = CATCHER
        /\ UNCHANGED <<motorRamp, motorDoor>>
  /\ UNCHANGED <<controller, sensor1Input, sensor2Input, gShutdown, amps, locals,
                 now, exitCode, deleted, ghosts, signals>>

\* void InitMotor(Axis *axis): configuration calls, ending in
\* axis->AmpEnableSet(true); any of the calls may throw.
InitMotor(a, at, next) ==
  /\ pc = at
  /\ \/ /\ pc' = next
        /\ ampEnabled' = [ampEnabled EXCEPT ![a] = TRUE]
        /\ disableIssued' = [disableIssued EXCEPT ![a] = FALSE]
     \/ /\ pc' = "catch"
        /\ UNCHANGED amps
  /\ UNCHANGED <<handles, gShutdown, locals, now, exitCode, deleted, ghosts, signals>>

\* InitMotor(motorCatcher); InitMotor(motorRamp); InitMotor(motorDoor);
InitMotors ==
  \/ InitMotor(CATCHER, "initCatcher", "initRamp")
  \/ InitMotor(RAMP, "initRamp", "initDoor")
  \/ InitMotor(DOOR, "initDoor", "mkSensor1")

\* sensorNInput = IOPoint::CreateDigitalInput(...); on an exception: exit(1).
CreateDigitalInputs ==
  /\ \/ /\ pc = "mkSensor1"
        /\ \/ pc' = "mkSensor2" /\ sensor1Input' = SENSOR1_INPUT /\ UNCHANGED exitCode
           \/ pc' = "done" /\ exitCode' = EXIT_FAILURE /\ UNCHANGED sensor1Input
        /\ UNCHANGED sensor2Input
     \/ /\ pc = "mkSensor2"
        /\ \/ pc' = "checkCtrl" /\ sensor2Input' = SENSOR2_INPUT /\ UNCHANGED exitCode
           \/ pc' = "done" /\ exitCode' = EXIT_FAILURE /\ UNCHANGED sensor2Input
        /\ UNCHANGED sensor1Input
  /\ UNCHANGED <<controller, motorRamp, motorDoor, motorCatcher, gShutdown, amps,
                 locals, now, deleted, ghosts, signals>>

\* if (!controller) return 1;
CheckController ==
  /\ pc = "checkCtrl"
  /\ IF controller = NULL
     THEN pc' = "done" /\ exitCode' = EXIT_FAILURE
     ELSE pc' = "loop" /\ UNCHANGED exitCode
  /\ UNCHANGED <<handles, gShutdown, amps, locals, now, deleted, ghosts, signals>>

\* ------------------------------------------------------------ helper calls

\* this_thread::sleep_for(d): the clock moves on by d, up to the horizon.
SleepFor(d) == now' = IF now + d < MaxClock THEN now + d ELSE MaxClock

\* Mutant of MoveSCurve: no try block, a rejected move propagates to main's
\* catch.
MoveSCurveUncaught(a, pos, next) ==
  /\ events' = Append(events, [kind |-> "move", id |-> a, pos |-> pos])
  /\ lastMoveOk' \in BOOLEAN
  /\ pc' = IF lastMoveOk' THEN next ELSE "catch"

\* void MoveSCurve(Axis *axis, double pos): one axis->MoveSCurve(pos, ...),
\* which returns or throws; the exception is caught and logged inside.
\* Either way control returns to the caller's next statement.
MoveSCurve(a, pos, next) ==
  /\ events' = Append(events, [kind |-> "move", id |-> a, pos |-> pos])
  /\ lastMoveOk' \in BOOLEAN
  /\ pc' = next

\* sensorInput->Get() inside ReadSensor: true, false, or an exception.  A
\* true reading is taken only while the clock is below the horizon.
GetOutcomes == IF now < MaxClock THEN {"true", "false", "throw"} ELSE {"false", "throw"}

\* Mutant of ReadSensor: the test of the reading is inverted.
ReadSensorInverted(sensorInput, r) ==
  IF sensorInput = NULL THEN 0
  ELSE IF r = "false" THEN now
  ELSE 0

\* Mutant of ReadSensor: the catch block falls through to the timestamp.
ReadSensorStampsOnThrow(sensorInput, r) ==
  IF sensorInput = NULL THEN 0
  ELSE IF r \in {"true", "throw"} THEN now
  ELSE 0

\* double ReadSensor(IOPoint *sensorInput): the value returned when Get()
\* has outcome r.  Every path of the try block returns on the first poll:
\* 0.0 for a null pointer, a false reading or an exception, the clock for a
\* true reading.
ReadSensor(sensorInput, r) ==
  IF sensorInput = NULL THEN 0
  ELSE IF r = "true" THEN now
  ELSE 0

\* ------------------------------------------------------------ sequencer loop

\* Mutant of LoopTarget: while (true).
LoopAlways == "prompt"

\* while (!gShutdown): where control goes from the loop test.
LoopTarget == IF gShutdown = 0 THEN "prompt" ELSE "cleanup"

\* The loop test at the top of each cycle.
LoopTest ==
  /\ pc = "loop"
  /\ pc' = LoopTarget
  /\ UNCHANGED <<handles, gShutdown, amps, locals, now, exitCode, deleted, ghosts, signals>>

\* Mutant of AfterSentinelCheck: gShutdown = (rampAngle == 1.23).
SentinelAssigns(entered) == IF entered = SENTINEL_ANGLE THEN 1 ELSE 0

\* Mutant of AfterSentinelCheck: the sentinel does not set the flag.
SentinelIgnored(entered) == gShutdown

\* Value of gShutdown after `if (rampAngle == 1.23) gShutdown = true;`
AfterSentinelCheck(entered) == IF entered = SENTINEL_ANGLE THEN 1 ELSE gShutdown

\* Mutant of AfterPrompt: the sentinel leaves the loop at once (break).
AfterPromptBreaks(entered) == IF entered = SENTINEL_ANGLE THEN "cleanup" ELSE "moveRamp"

\* The statement that follows the angle entry: the cycle starts, whatever
\* was entered.
AfterPrompt(entered) == "moveRamp"

\* cin >> rampAngle; sentinel check; rampAngle = rampAngle - ANGLE_OFFSET;
AwaitAngleInput ==
  /\ pc = "prompt"
  /\ cycles < MaxCycles
  /\ \E entered \in Angles :
       /\ gShutdown' = AfterSentinelCheck(entered)
       /\ sentinelSeen' = (sentinelSeen \/ entered = SENTINEL_ANGLE)
       /\ rampAngle' = entered - ANGLE_OFFSET
       /\ pc' = AfterPrompt(entered)
  /\ cycles' = cycles + 1
  /\ events' = <<>>
  /\ UNCHANGED <<handles, amps, t1, t2, speed, landing, now, exitCode, deleted,
                 lastMoveOk, lastRead, readFailed, signals>>

\* MoveSCurve(motorRamp, rampAngle); MoveSCurve(motorDoor, 0);
PositionRamp ==
  /\ \/ pc = "moveRamp" /\ MoveSCurve(RAMP, rampAngle, "moveDoor")
     \/ pc = "moveDoor" /\ MoveSCurve(DOOR, DOOR_CLOSED, "declT")
  /\ UNCHANGED <<handles, gShutdown, amps, locals, now, exitCode, deleted,
                 lastRead, readFailed, sentinelSeen, cycles, signals>>

\* Mutant of DeclareTimes: t1 and t2 live outside the loop and keep the
\* values of the previous cycle.
DeclareTimesOnce ==
  /\ pc = "declT"
  /\ readFailed' = FALSE
  /\ pc' = "wait1"
  /\ UNCHANGED <<handles, gShutdown, amps, locals, now, exitCode,
                 deleted, events, lastMoveOk, lastRead, sentinelSeen, cycles, signals>>

\* double t1 = 0.0, t2 = 0.0;
DeclareTimes ==
  /\ pc = "declT"
  /\ t1' = 0 /\ t2' = 0
  /\ readFailed' = FALSE
  /\ pc' = "wait1"
  /\ UNCHANGED <<handles, gShutdown, amps, rampAngle, speed, landing, now, exitCode,
                 deleted, events, lastMoveOk, lastRead, sentinelSeen, cycles, signals>>

\* while (t1 == 0.0) { t1 = ReadSensor(sensor1Input); sleep_for(1 ms); }
WaitSensor1 ==
  \/ /\ pc = "wait1"
     /\ pc' = IF t1 = 0 THEN "read1" ELSE "openDoor"
     /\ UNCHANGED <<handles, gShutdown, amps, locals, now, exitCode, deleted, ghosts, signals>>
  \/ /\ pc = "read1"
     /\ \E r \in GetOutcomes :
          /\ t1' = ReadSensor(sensor1Input, r)
          /\ lastRead' = r
          /\ readFailed' = (readFailed \/ r = "throw")
          /\ events' = IF ReadSensor(sensor1Input, r) # 0
                       THEN Append(events, [kind |-> "stamp", id |-> 1, pos |-> now])
                       ELSE events
     /\ pc' = "sleep1"
     /\ UNCHANGED <<handles, gShutdown, amps, rampAngle, t2, speed, landing, now, exitCode,
                    deleted, lastMoveOk, sentinelSeen, cycles, signals>>
  \/ /\ pc = "sleep1"
     /\ SleepFor(POLL_SLEEP_MS)
     /\ pc' = "wait1"
     /\ UNCHANGED <<handles, gShutdown, amps, locals, exitCode, deleted, ghosts, signals>>

\* MoveSCurve(motorDoor, 100 - rampAngle);
OpenDoor ==
  /\ pc = "openDoor"
  /\ MoveSCurve(DOOR, DOOR_OPEN_BASE - rampAngle, "wait2")
  /\ readFailed' = FALSE
  /\ UNCHANGED <<handles, gShutdown, amps, locals, now, exitCode, deleted,
                 lastRead, sentinelSeen, cycles, signals>>

\* while (t2 == 0.0) { t2 = ReadSensor(sensor2Input); sleep_for(1 ms); }
WaitSensor2 ==
  \/ /\ pc = "wait2"
     /\ pc' = IF t2 = 0 THEN "read2" ELSE "closeDoor"
     /\ UNCHANGED <<handles, gShutdown, amps, locals, now, exitCode, deleted, ghosts, signals>>
  \/ /\ pc = "read2"
     /\ \E r \in GetOutcomes :
          /\ t2' = ReadSensor(sensor2Input, r)
          /\ lastRead' = r
          /\ readFailed' = (readFailed \/ r = "throw")
          /\ events' = IF ReadSensor(sensor2Input, r) # 0
                       THEN Append(events, [kind |-> "stamp", id |-> 2, pos |-> now])
                       ELSE events
     /\ pc' = "sleep2"
     /\ UNCHANGED <<handles, gShutdown, amps, rampAngle, t1, speed, landing, now, exitCode,
                    deleted, lastMoveOk, sentinelSeen, cycles, signals>>
  \/ /\ pc = "sleep2"
     /\ SleepFor(POLL_SLEEP_MS)
     /\ pc' = "wait2"
     /\ UNCHANGED <<handles, gShutdown, amps, locals, exitCode, deleted, ghosts, signals>>

\* MoveSCurve(motorDoor, 0.0);
CloseDoor ==
  /\ pc = "closeDoor"
  /\ MoveSCurve(DOOR, DOOR_CLOSED, "physics")
  /\ UNCHANGED <<handles, gShutdown, amps, locals, now, exitCode, deleted,
                 lastRead, readFailed, sentinelSeen, cycles, signals>>

\* speed = ComputeSpeed(t1, t2); landing = ComputeLandingPosition(speed, rampAngle);
\* landing = std::clamp(landing, MIN_CATCHER_POSITION, MAX_CATCHER_POSITION);
ComputePhysics ==
  /\ pc = "physics"
  /\ speed' = ComputeSpeed(t1, t2)
  /\ landing' = Landing(t1, t2, rampAngle)
  /\ pc' = "moveCatcher"
  /\ UNCHANGED <<handles, gShutdown, amps, rampAngle, t1, t2, now, exitCode,
                 deleted, ghosts, signals>>

\* MoveSCurve(motorCatcher, landing);
PositionCatcher ==
  /\ pc = "moveCatcher"
  /\ MoveSCurve(CATCHER, landing, "cooldown")
  /\ UNCHANGED <<handles, gShutdown, amps, locals, now, exitCode, deleted,
                 lastRead, readFailed, sentinelSeen, cycles, signals>>

\* this_thread::sleep_for(chrono::seconds(3)); then back to the loop test.
Cooldown ==
  /\ pc = "cooldown"
  /\ SleepFor(COOLDOWN_MS)
  /\ pc' = "loop"
  /\ UNCHANGED <<handles, gShutdown, amps, locals, exitCode, deleted, ghosts, signals>>

\* ----------------------------------------------------------------- cleanup

\* catch (const std::exception &ex) { cerr << ...; }
CatchFatal ==
  /\ pc = "catch"
  /\ pc' = "cleanup"
  /\ UNCHANGED <<handles, gShutdown, amps, locals, now, exitCode, deleted, ghosts, signals>>

\* if (controller) { try { ... } catch (...) { ... } }
CleanupTest ==
  /\ pc = "cleanup"
  /\ pc' = IF controller # NULL THEN "disRamp" ELSE "ret"
  /\ UNCHANGED <<handles, gShutdown, amps, locals, now, exitCode, deleted, ghosts, signals>>

\* motorX->AmpEnableSet(false) inside the cleanup try block.  With a handle:
\* the command is issued and returns, or throws into catch (...), which
\* skips the rest of the block.  Through a null pointer the call is
\* undefined: the process faults, or the call falls through, or it throws.
DisableInCleanup(a, at, next) ==
  /\ pc = at
  /\ IF Motor(a) # NULL
     THEN /\ disableIssued' = [disableIssued EXCEPT ![a] = TRUE]
          /\ \/ pc' = next /\ ampEnabled' = [ampEnabled EXCEPT ![a] = FALSE]
             \/ pc' = "ret" /\ UNCHANGED ampEnabled
          /\ UNCHANGED exitCode
     ELSE /\ UNCHANGED amps
          /\ \E outcome \in {"fault", "returns", "throws"} :
               /\ pc' = CASE outcome = "fault" -> "done"
                          [] outcome = "returns" -> next
                          [] outcome = "throws" -> "ret"
               /\ exitCode' = IF outcome = "fault" THEN EXIT_CRASH ELSE exitCode
  /\ UNCHANGED <<handles, gShutdown, locals, now, deleted, ghosts, signals>>

\* motorRamp->AmpEnableSet(false); motorDoor->...; motorCatcher->...;
DisableMotors ==
  \/ DisableInCleanup(RAMP, "disRamp", "disDoor")
  \/ DisableInCleanup(DOOR, "disDoor", "disCatcher")
  \/ DisableInCleanup(CATCHER, "disCatcher", "delete")

\* controller->Delete(); returns, or throws into catch (...).
DeleteController ==
  /\ pc = "delete"
  /\ deleted' \in BOOLEAN
  /\ pc' = "ret"
  /\ UNCHANGED <<handles, gShutdown, amps, locals, now, exitCode, ghosts, signals>>

\* cout << "[HotWheels] Demo finished.\n"; return 0;
ReturnSuccess ==
  /\ pc = "ret"
  /\ pc' = "done"
  /\ exitCode' = EXIT_SUCCESS
  /\ UNCHANGED <<handles, gShutdown, amps, locals, now, deleted, ghosts, signals>>

\* ------------------------------------------------------------ specification

\* The steps of the main thread.
Main ==
  \/ InstallHandler \/ CreateController \/ StartTheNetwork \/ AxisGet \/ InitMotors
  \/ CreateDigitalInputs \/ CheckController
  \/ LoopTest \/ AwaitAngleInput \/ PositionRamp \/ DeclareTimes \/ WaitSensor1
  \/ OpenDoor \/ WaitSensor2 \/ CloseDoor \/ ComputePhysics \/ PositionCatcher
  \/ Cooldown \/ CatchFatal \/ CleanupTest \/ DisableMotors \/ DeleteController
  \/ ReturnSuccess

Next == Main \/ SignalHandler

Spec == Init /\ [][Next]_vars

\* The main thread keeps running while it has a statement to execute; the
\* operator and the sensors are not obliged to do anything.
FairSpec == Spec /\ WF_vars(Main)

\* ------------------------------------------------- ComputeSpeed on its own

\* Any two timestamps, in either order, about to be passed to ComputeSpeed.
SpeedInit ==
  /\ pc = "callSpeed"
  /\ t1 \in 0..MaxTime /\ t2 \in 0..MaxTime
  /\ controller = NULL /\ motorRamp = NULL /\ motorDoor = NULL /\ motorCatcher = NULL
  /\ sensor1Input = NULL /\ sensor2Input = NULL
  /\ gShutdown = 0
  /\ ampEnabled = [a \in AxisIDs |-> FALSE]
  /\ rampAngle = 0 /\ speed = 0 /\ landing = 0
  /\ now = 1
  /\ exitCode = RUNNING
  /\ deleted = FALSE
  /\ disableIssued = [a \in AxisIDs |-> FALSE]
  /\ events = <<>>
  /\ lastMoveOk = TRUE
  /\ lastRead = "none"
  /\ readFailed = FALSE
  /\ sentinelSeen = FALSE
  /\ cycles = 0
  /\ sigCount = 0
  /\ sigPc = "none"

\* double speed = ComputeSpeed(t1, t2);
CallComputeSpeed ==
  /\ pc = "callSpeed"
  /\ speed' = ComputeSpeed(t1, t2)
  /\ pc' = "speedReturned"
  /\ UNCHANGED <<handles, gShutdown, amps, rampAngle, t1, t2, landing, now, exitCode,
                 deleted, ghosts, signals>>

SpeedSpec == SpeedInit /\ [][CallComputeSpeed]_vars

\* ------------------------------------------------------- sequencer states

\* Statements of the wait on sensor 1, of the wait on sensor 2, and of the
\* terminal Shutdown state (cleanup up to process exit).
Wait1Pcs == {"wait1", "read1", "sleep1"}
Wait2Pcs == {"wait2", "read2", "sleep2"}
ShutdownPcs == {"cleanup", "disRamp", "disDoor", "disCatcher", "delete", "ret", "done"}

\* SetupRMP returned normally: both digital inputs exist.
SetupSucceeded == sensor2Input # NULL

\* This step issues a motion command (a call of MoveSCurve).
MoveIssued ==
  /\ Len(events') = Len(events) + 1
  /\ events'[Len(events')].kind = "move"

\* The catcher commands of the current cycle.
CatcherCommands ==
  {i \in 1..Len(events) : events[i].kind = "move" /\ events[i].id = CATCHER}

\* ------------------------------------------------------------------ claims

\* C1: once the signal handler has set the cancellation flag, no step of the
\* sequencer issues a motion command to the ramp, door or catcher.
C1_NoMotionAfterSignal == [][sigCount > 0 => ~MoveIssued]_vars

\* C2: when the signal arrived during a sensor wait and the sequencer is
\* still waiting on a sensor with the flag set, it eventually reaches
\* Shutdown, whether or not the sensor triggers.
C2_CancelEndsWait ==
  (sigCount > 0 /\ sigPc \in Wait1Pcs \cup Wait2Pcs /\ pc \in Wait1Pcs \cup Wait2Pcs)
    ~> (pc \in ShutdownPcs)

\* C3: a sensor wait is bounded: a wait on sensor 1 that records no
\* timestamp is eventually abandoned for the angle prompt (or Shutdown), and
\* likewise a wait on sensor 2; no wait polls for ever.
C3_WaitIsBounded ==
  /\ (pc \in Wait1Pcs) ~> (pc \notin Wait1Pcs)
  /\ (pc \in Wait2Pcs) ~> (pc \notin Wait2Pcs)

C6_NoPromptAfterSentinel == sentinelSeen => pc # "prompt"

\* C6 witness: the sentinel was entered, its cycle ran to the end and the
\* loop was left for cleanup.
C6_Witness == sentinelSeen /\ pc = "cleanup" /\ sigCount = 0 /\ CatcherCommands # {}

\* C7: after the sentinel angle was entered the process eventually reaches
\* Shutdown, whether or not the sensors trigger.
C7_SentinelLeadsToShutdown == sentinelSeen ~> (pc \in ShutdownPcs)

\* C8: when setup succeeded and the process returned the success code, a
\* disable command was issued to all three actuators and the controller was
\* released.
C8_SuccessMeansDisabledAndReleased ==
  (pc = "done" /\ exitCode = EXIT_SUCCESS /\ SetupSucceeded)
    => (deleted /\ \A a \in AxisIDs : disableIssued[a])

\* C9: a run whose setup failed ends with an exit code other than the
\* success code and never entered the sequencer loop.
C9_SetupFailureExitsNonZero ==
  (pc = "done" /\ ~SetupSucceeded)
    => (exitCode # EXIT_SUCCESS /\ cycles = 0 /\ events = <<>>)

\* C10: the step after Cooldown is the loop test, which goes to Shutdown
\* when the flag is set and to the angle prompt otherwise; so a flag found
\* set at the prompt was set by a signal that arrived at that prompt.
C10_LoopBoundary ==
  /\ [][(pc = "cooldown" /\ pc' # pc) => pc' = "loop"]_vars
  /\ [][(pc = "loop" /\ pc' # pc)
          => pc' = (IF gShutdown = 1 THEN "cleanup" ELSE "prompt")]_vars
  /\ []((pc = "prompt" /\ gShutdown = 1) => (sigPc = "prompt" /\ ~sentinelSeen))

\* C10 witness: a cycle ended with the flag set by a signal during the
\* cooldown, and the loop test sent the sequencer to cleanup.
C10_Witness ==
  /\ pc = "cleanup" /\ gShutdown = 1 /\ sigPc = "cooldown"
  /\ CatcherCommands # {} /\ ~sentinelSeen

\* The statement that follows each motion command of the cycle.
NextAfterMove(at) ==
  CASE at = "moveRamp" -> "moveDoor"
    [] at = "moveDoor" -> "declT"
    [] at = "openDoor" -> "wait2"
    [] at = "closeDoor" -> "physics"
    [] at = "moveCatcher" -> "cooldown"

\* The timestamps of sensor n recorded in the current cycle.
Stamps(n) == {i \in 1..Len(events) : events[i].kind = "stamp" /\ events[i].id = n}

\* C11: a Get() that throws during a wait is a non-trigger for that poll: it
\* records no timestamp, the process keeps running and the wait goes on to
\* its next poll.
C11_FailedReadIsNonTrigger ==
  /\ [][(pc \in {"read1", "read2"} /\ pc' # pc /\ lastRead' = "throw")
          => /\ t1' = t1 /\ t2' = t2 /\ events' = events
             /\ exitCode' = RUNNING
             /\ pc' = (IF pc = "read1" THEN "sleep1" ELSE "sleep2")]_vars
  /\ [][(pc \in {"wait1", "wait2"} /\ pc' # pc /\ lastRead = "throw")
          => pc' = (IF pc = "wait1" THEN "read1" ELSE "read2")]_vars
  /\ []((lastRead = "throw" /\ pc \in {"sleep1", "wait1"}) => (t1 = 0 /\ Stamps(1) = {}))
  /\ []((lastRead = "throw" /\ pc \in {"sleep2", "wait2"}) => (t2 = 0 /\ Stamps(2) = {}))

\* C11 witness: a read of sensor 1 failed, and a later poll of the same wait
\* read true and recorded t1.
C11_Witness ==
  /\ pc = "sleep1" /\ readFailed /\ lastRead = "true"
  /\ t1 # 0 /\ Stamps(1) # {}

\* C12: a motion command that fails neither ends the process nor leaves the
\* cycle: the step that issues it goes to the same next statement as after
\* a successful command.
C12_MoveFailureNonFatal ==
  [][MoveIssued => (exitCode' = RUNNING /\ pc' = NextAfterMove(pc))]_vars

\* C12 witness: the door-open command was rejected and the sequencer is
\* waiting on sensor 2.
C12_Witness ==
  /\ pc = "wait2" /\ ~lastMoveOk /\ exitCode = RUNNING
  /\ Len(events) = 4 /\ events[4].id = DOOR

\* C13: the flag starts clear, is 0 or 1, and once set is never cleared.
C13_FlagMonotonic ==
  /\ [](pc = "start" => gShutdown = 0)
  /\ [](gShutdown \in {0, 1})
  /\ [][gShutdown = 1 => gShutdown' = 1]_vars

\* C13 witness: the flag was set by a signal at the prompt, a non-sentinel
\* angle was then entered, and the flag is still set.
C13_Witness ==
  /\ gShutdown = 1 /\ sigPc = "prompt" /\ ~sentinelSeen
  /\ pc = "moveRamp"

\* C14: for t2 > t1 >= 0 the speed is the quotient SENSOR_DISTANCE / (t2 - t1)
\* (here in cm/s from ms, rounded down); for t2 <= t1 it is 0; it is never
\* negative.
C14_ComputeSpeed ==
  pc = "speedReturned" =>
    /\ speed >= 0
    /\ t2 <= t1 => speed = 0
    /\ t2 > t1 =>
         /\ speed * (t2 - t1) <= SENSOR_DISTANCE * 1000
         /\ SENSOR_DISTANCE * 1000 < (speed + 1) * (t2 - t1)

\* C14 witness: both branches were taken: here a positive speed from
\* t2 > t1 > 0.
C14_Witness == pc = "speedReturned" /\ t1 > 0 /\ t2 > t1 /\ speed > 0

\* The events of one launch cycle, in the order of main's statements, as
\* (kind, id) pairs.
CycleOrder ==
  << <<"move", RAMP>>, <<"move", DOOR>>, <<"stamp", 1>>, <<"move", DOOR>>,
     <<"stamp", 2>>, <<"move", DOOR>>, <<"move", CATCHER>> >>

\* Statements of the cycle that follow the wait on sensor 2.
AfterWait2Pcs == {"closeDoor", "physics", "moveCatcher", "cooldown"}

\* C15: the events of a cycle are a prefix of: ramp command, door-closed
\* command, t1 from a true reading of sensor 1, door-open command, t2 from a
\* true reading of sensor 2, door-closed command, catcher command.
C15_CycleOrder ==
  /\ Len(events) <= Len(CycleOrder)
  /\ \A i \in 1..Len(events) :
       /\ <<events[i].kind, events[i].id>> = CycleOrder[i]
       /\ i \in {2, 6} => events[i].pos = DOOR_CLOSED
       /\ i = 4 => events[i].pos = DOOR_OPEN_BASE - rampAngle
  /\ pc = "openDoor" => (lastRead = "true" /\ Stamps(1) # {})
  /\ pc \in AfterWait2Pcs => (lastRead = "true" /\ Stamps(2) # {})
  /\ pc = "cooldown" => Len(events) = Len(CycleOrder)

\* C15 witness: a whole cycle has run, up to the catcher command.
C15_Witness ==
  /\ pc = "cooldown" /\ Len(events) = 7
  /\ events[3].pos < events[5].pos

\* C16: once SignalHandler has run, no step turns an amplifier on.
C16_NoEnableAfterSignal ==
  [][sigCount > 0 => \A a \in AxisIDs : (ampEnabled'[a] => ampEnabled[a])]_vars

\* C17: when the process has terminated, every amplifier that is enabled
\* was sent a disable command after it was enabled.
C17_DisabledBeforeExit ==
  pc = "done" => \A a \in AxisIDs : (ampEnabled[a] => disableIssued[a])

\* C18: t1 and t2 are zero from their declaration until a timestamp of the
\* current cycle is recorded; from ComputePhysics on both are non-zero,
\* t1 <= t2, they are the timestamps recorded in this cycle, and the speed
\* and landing sent to the catcher are computed from them.
C18_TimesOfThisCycle ==
  /\ (pc \in Wait1Pcs /\ Stamps(1) = {}) => (t1 = 0 /\ t2 = 0)
  /\ (pc \in Wait2Pcs \cup {"openDoor"} /\ Stamps(2) = {}) => t2 = 0
  /\ pc \in {"physics", "moveCatcher", "cooldown"} =>
       /\ t1 # 0 /\ t2 # 0 /\ t1 <= t2
       /\ Len(events) >= 5 /\ events[3].pos = t1 /\ events[5].pos = t2
  /\ pc \in {"moveCatcher", "cooldown"} =>
       /\ speed = ComputeSpeed(events[3].pos, events[5].pos)
       /\ landing = Landing(events[3].pos, events[5].pos, rampAngle)

\* C18 witness: the physics of a cycle has been computed from two distinct
\* timestamps of that cycle.
C18_Witness ==
  /\ pc = "moveCatcher" /\ t1 > 0 /\ t2 > t1 /\ speed > 0
  /\ events[3].pos = t1 /\ events[5].pos = t2

\* C19: after the sentinel was entered it is the ramp angle, and cleanup is
\* only reached with the whole cycle run: ramp at the sentinel angle, door,
\* both timestamps, door open and closed, catcher.
C19_SentinelRunsCycle ==
  /\ sentinelSeen => rampAngle = SENTINEL_ANGLE - ANGLE_OFFSET
  /\ (sentinelSeen /\ pc \in ShutdownPcs) =>
       /\ Len(events) = Len(CycleOrder)
       /\ \A i \in 1..Len(events) : <<events[i].kind, events[i].id>> = CycleOrder[i]
       /\ events[1].pos = SENTINEL_ANGLE - ANGLE_OFFSET

\* C19 witness: the process has returned after a sentinel cycle that ran in
\* full.
C19_Witness ==
  /\ sentinelSeen /\ pc = "done" /\ exitCode = EXIT_SUCCESS
  /\ Len(events) = 7 /\ events[1].pos = SENTINEL_ANGLE

====
